---------------------------- MODULE Spec2Model ----------------------------
(***************************************************************************)
(* Model of src/components/ClusterFoamTree.vue: the pointer / wheel        *)
(* gesture translator (lines 269-371), the lifecycle hooks (lines          *)
(* 374-425), and the clustering, the slider watcher and the selection      *)
(* handler (lines 87-266, 428-433).                                        *)
(*                                                                         *)
(* Distances are kept as their squares: dist(a, b) is Math.hypot(dx, dy),  *)
(* so dist(a, b) > t  <=>  dx*dx + dy*dy > t*t, and a scale                *)
(* dist(a, b) / baseDist is carried as the pair <<num, den>> of the        *)
(* squares, scale * scale = num / den.  den = 0 is JavaScript's division   *)
(* by zero: Infinity when num > 0, NaN when num = 0.                       *)
(*                                                                         *)
(* Similarities are kept in tenths (7 is 0.7).  buildSimilarityGraph,      *)
(* clusterByThreshold and the rendering instance belong to libraries: the  *)
(* model gives the first two a small fixed graph and the grouping by       *)
(* connection at the threshold, and lets the instance report selections    *)
(* and resolve expose() promises in any order.                             *)
(***************************************************************************)
EXTENDS Integers, Sequences, FiniteSets

\* ------------------------------------------------------------------ bounds
\* Touch contacts the surface can report besides the mouse.
MaxTouch == 1

\* expose() promises that may be unresolved at a time (an expose takes
\* exposeDuration, 400 ms, to complete)
MaxExposing == 2

\* ------------------------------------------------------- program constants
TAP_TOLERANCE == 6

\* Similarities are kept in tenths: 7 is 0.7.
\* the default of props.minClusterSim
DefaultMinClusterSim == 7

\* the default of props.minDocsPerCluster
DefaultMinDocsPerCluster == 1

\* what the default of props.minSliderSim returns
MinSliderSim == 6

\* ---------------------------------------------------------- the host side
\* pointerId 1 is the mouse, the others are touch contacts
Ids == 1 .. (MaxTouch + 1)

PointerType(id) == IF id = 1 THEN "mouse" ELSE "touch"

\* button of a pointerdown: 0 is the primary button, 2 the secondary one;
\* a touch contact always reports 0.
Buttons(id) == IF PointerType(id) = "mouse" THEN {0, 2} ELSE {0}

\* Points of the surface, in container-local coordinates (what rel()
\* returns). Their distances are 5 (inside the tolerance), 6 (exactly the
\* tolerance) and sqrt(97) (beyond it).
Origin == [x |-> 0, y |-> 0]
Positions == {Origin, [x |-> 3, y |-> 4], [x |-> 9, y |-> 4]}

\* deltaY of a wheel event, and where the cursor is then: a point no
\* pointer is at
WheelDeltas == {-1, 0, 1}
WheelPositions == {[x |-> 7, y |-> 2]}

VARIABLES
    foamtree,      \* foamtree.value is an instance (TRUE) or null (FALSE)
    listening,     \* the event types the container has a listener of ours for
    container,     \* container.value is the mounted element (TRUE) or null
    resizeObserver, \* resizeObserver.value is a connected observer or null
    rendering,     \* the nextTick callback of onMounted is yet to run
    console,       \* what console.log was called with, in order
    uncaught,      \* an exception left a lifecycle hook
    props,         \* the props minClusterSim and minDocsPerCluster
    sliderSim,     \* sliderSim.value, in tenths
    simGraph,      \* the similarity graph, <<>> while undefined
    found,         \* minFoundSim.value and maxFoundSim.value, in tenths
    clusters,      \* clusters.value
    dataObject,    \* the groups of the dataObject the instance has
    updating,      \* the nextTick callback of the sliderSim watcher is yet to run
    exposed,       \* the ids of the groups the instance reports as exposed
    exposing,      \* the groups of the expose() promises not yet resolved
    events,        \* the events the component emitted in the last step
    built,         \* history: similarityGraphBuilt was emitted never (0),
                   \*          once (1), more than once (2)
    pointers,      \* Map pointerId -> {x, y, type}, in insertion order
    startPos,      \* Map pointerId -> {x, y}
    baseDist,      \* the square of baseDist
    dragging,
    transforming,
    hostDown,      \* pointers the host surface reports as down
    emitted,       \* foamtree.trigger calls made by the last handler, in order
    last,          \* the last input the host produced
    session,       \* history: the contact of a single pointer that began at idle
    started,       \* history: pointer handling emitted transformstart since idle
    involved,      \* history: tracked pointers that took part in a drag or transform
    crossed,       \* history: tracked pointers that went beyond the tolerance
    pairDist,      \* history: positions and squared distance of each tracked
                   \*          pair when the later of the two went down
    open,          \* history: the pointer handlers emitted a transformstart /
                   \*          dragstart and no transformend / dragend since
    recording      \* whether crossed and pairDist are kept (SpecRecorded)

vars == <<foamtree, listening, container, resizeObserver, rendering, console,
          uncaught, props, sliderSim, simGraph, found, clusters, dataObject,
          updating, exposed, exposing, events, built, pointers, startPos, baseDist, dragging,
          transforming, hostDown, emitted, last, session, started, involved,
          crossed, pairDist, open, recording>>

lifecycle == <<container, resizeObserver, rendering, console, uncaught>>

clustering == <<props, sliderSim, simGraph, found, clusters, dataObject,
                updating, exposed, exposing, events, built>>

history == <<session, started, involved, crossed, pairDist, open>>

translator == <<pointers, startPos, baseDist, dragging, transforming>>

\* ------------------------------------------------------------- Map helpers
Keys(m) == {m[i].id : i \in 1 .. Len(m)}

MapHas(m, id) == id \in Keys(m)

MapGet(m, id) == m[CHOOSE i \in 1 .. Len(m) : m[i].id = id]

\* Map.set: an existing key keeps its place, a new key goes last
MapSet(m, id, v) ==
    IF MapHas(m, id)
    THEN [i \in 1 .. Len(m) |-> IF m[i].id = id THEN v ELSE m[i]]
    ELSE Append(m, v)

RECURSIVE MapDelete(_, _)
MapDelete(m, id) ==
    IF m = <<>> THEN <<>>
    ELSE IF Head(m).id = id THEN Tail(m)
    ELSE <<Head(m)>> \o MapDelete(Tail(m), id)

Entry(id, p) == [id |-> id, x |-> p.x, y |-> p.y, type |-> PointerType(id)]

XY(e) == [x |-> e.x, y |-> e.y]

\* --------------------------------------------------------- pure functions
\* dist(a, b) squared
distSq(a, b) == (a.x - b.x) * (a.x - b.x) + (a.y - b.y) * (a.y - b.y)

NoScale == <<>>

Ev(name, p, scale, secondary) ==
    [name |-> name, x |-> p.x, y |-> p.y, scale |-> scale,
     secondary |-> secondary]

Names(evs) == [i \in 1 .. Len(evs) |-> evs[i].name]

\* Primary button only for mouse
AcceptsDown(id, button) == ~(PointerType(id) = "mouse" /\ button # 0)

ExceedsToleranceInclusive(p, s) ==
    distSq(p, s) >= TAP_TOLERANCE * TAP_TOLERANCE

ExceedsTolerance(p, s) == distSq(p, s) > TAP_TOLERANCE * TAP_TOLERANCE

\* dist(a, b) / baseDist
PinchScale(a, b, base) == <<distSq(a, b), base>>

WheelScaleInverted(deltaY) ==
    IF deltaY > 0 THEN <<10609, 10000>> ELSE <<9409, 10000>>

\* ev.deltaY < 0 ? 1.03 : 0.97, as the squares 1.0609 and 0.9409
WheelScale(deltaY) == IF deltaY < 0 THEN <<10609, 10000>> ELSE <<9409, 10000>>

UpEmittedClickAfterDrag(p, drag, trans) ==
    (IF trans THEN <<Ev("transformend", p, NoScale, FALSE)>> ELSE <<>>)
    \o (IF drag THEN <<Ev("dragend", p, NoScale, FALSE)>> ELSE <<>>)
    \o (IF ~trans THEN <<Ev("click", p, NoScale, FALSE)>> ELSE <<>>)

\* the triggers of onPointerUp, in order
UpEmitted(p, drag, trans) ==
    (IF trans THEN <<Ev("transformend", p, NoScale, FALSE)>> ELSE <<>>)
    \o (IF drag THEN <<Ev("dragend", p, NoScale, FALSE)>> ELSE <<>>)
    \o (IF ~drag /\ ~trans THEN <<Ev("click", p, NoScale, FALSE)>> ELSE <<>>)

FlagAfterUpKept(ps, flag) == flag

\* if (pointers.size === 0) { dragging = false; transforming = false; }
FlagAfterUp(ps, flag) == IF Len(ps) = 0 THEN FALSE ELSE flag

\* drag emitted only while the pointer is beyond the tolerance
DragEmittedOnlyBeyond(p, s, drag) ==
    (IF ~drag /\ ExceedsTolerance(p, s)
     THEN <<Ev("dragstart", p, NoScale, FALSE)>> ELSE <<>>)
    \o (IF ExceedsTolerance(p, s)
        THEN <<Ev("drag", p, NoScale, FALSE)>> ELSE <<>>)

\* the triggers of the single-pointer branch of onPointerMove
DragEmitted(p, s, drag) ==
    (IF ~drag /\ ExceedsTolerance(p, s)
     THEN <<Ev("dragstart", p, NoScale, FALSE)>> ELSE <<>>)
    \o (IF drag \/ ExceedsTolerance(p, s)
        THEN <<Ev("drag", p, NoScale, FALSE)>> ELSE <<>>)

DownEmittedFromThird(ps) ==
    IF Len(ps) >= 3
    THEN <<Ev("transformstart", XY(ps[1]), NoScale, TRUE)>>
    ELSE <<>>

\* the trigger of onPointerDown: transformstart at the first pointer of the
\* map once two pointers are in it
DownEmitted(ps) ==
    IF Len(ps) >= 2
    THEN <<Ev("transformstart", XY(ps[1]), NoScale, TRUE)>>
    ELSE <<>>

\* ------------------------------------------------------------ the handlers
Idle ==
    /\ pointers = <<>>
    /\ DOMAIN startPos = {}
    /\ ~dragging
    /\ ~transforming

onPointerDown(id, p, button) ==
    IF ~foamtree \/ ~AcceptsDown(id, button)
    THEN /\ UNCHANGED translator
         /\ emitted' = <<>>
    ELSE LET ps == MapSet(pointers, id, Entry(id, p))
         IN /\ pointers' = ps
            /\ startPos' = [k \in DOMAIN startPos \cup {id} |->
                               IF k = id THEN p ELSE startPos[k]]
            /\ emitted' = DownEmitted(ps)
            /\ IF Len(ps) >= 2
               THEN /\ baseDist' = distSq(XY(ps[1]), XY(ps[2]))
                    /\ transforming' = TRUE
                    /\ UNCHANGED dragging
               ELSE /\ dragging' = FALSE
                    /\ UNCHANGED <<baseDist, transforming>>

onPointerMove(id, p) ==
    IF ~foamtree \/ ~MapHas(pointers, id)
    THEN /\ UNCHANGED translator
         /\ emitted' = <<>>
    ELSE LET ps == MapSet(pointers, id, Entry(id, p))
         IN /\ pointers' = ps
            /\ UNCHANGED <<startPos, baseDist, transforming>>
            /\ IF Len(ps) = 1 /\ ~transforming
               THEN /\ dragging' = (dragging \/ ExceedsTolerance(p, startPos[id]))
                    /\ emitted' = DragEmitted(p, startPos[id], dragging)
               ELSE /\ UNCHANGED dragging
                    /\ emitted' =
                         IF Len(ps) = 2
                         THEN <<Ev("transform", XY(ps[1]),
                                   PinchScale(XY(ps[1]), XY(ps[2]), baseDist), TRUE)>>
                         ELSE <<>>

onPointerUp(id, p) ==
    IF ~foamtree
    THEN /\ UNCHANGED translator
         /\ emitted' = <<>>
    ELSE LET ps == MapDelete(pointers, id)
         IN /\ emitted' = UpEmitted(p, dragging, transforming)
            /\ pointers' = ps
            /\ startPos' = [k \in DOMAIN startPos \ {id} |-> startPos[k]]
            /\ dragging' = FlagAfterUp(ps, dragging)
            /\ transforming' = FlagAfterUp(ps, transforming)
            /\ UNCHANGED baseDist

\* a wheel handler that also ends a transform of the pointers
onWheelEndsTransform(p, deltaY) ==
    /\ UNCHANGED <<pointers, startPos, baseDist, dragging>>
    /\ transforming' = FALSE
    /\ emitted' =
          IF ~foamtree THEN <<>>
          ELSE << Ev("transformstart", p, NoScale, TRUE),
                  Ev("transform", p, WheelScale(deltaY), TRUE),
                  Ev("transformend", p, NoScale, TRUE) >>

onWheel(p, deltaY) ==
    /\ UNCHANGED translator
    /\ emitted' =
          IF ~foamtree THEN <<>>
          ELSE << Ev("transformstart", p, NoScale, TRUE),
                  Ev("transform", p, WheelScale(deltaY), TRUE),
                  Ev("transformend", p, NoScale, TRUE) >>

\* ----------------------------------------------------------------- history
\* What the properties below need to know about the past; no handler reads it.
NoSession ==
    [phase |-> "none", id |-> 0, start |-> Origin, moved |-> FALSE,
     exceeded |-> FALSE, log |-> <<>>]

Far(p, s) == distSq(p, s) > TAP_TOLERANCE * TAP_TOLERANCE

\* the names of evs added to log, a run of drag events kept as one
RECURSIVE Logged(_, _)
Logged(log, names) ==
    IF names = <<>> THEN log
    ELSE IF log # <<>> /\ log[Len(log)] = "drag" /\ Head(names) = "drag"
         THEN Logged(log, Tail(names))
         ELSE Logged(Append(log, Head(names)), Tail(names))

\* A session is one contact of a tracked pointer that went down on the idle
\* translator; it lasts while that pointer alone produces pointer events
\* and is forgotten one step after its release.
SessionStep(kind, id, p, accepted, evs) ==
    IF kind = "down"
    THEN IF accepted /\ foamtree /\ Idle
         THEN [phase |-> "down", id |-> id, start |-> p, moved |-> FALSE,
               exceeded |-> FALSE, log |-> <<>>]
         ELSE NoSession
    ELSE IF session.phase = "down" /\ session.id = id /\ kind = "move"
    THEN [session EXCEPT !.moved = @ \/ p # session.start,
                         !.exceeded = @ \/ Far(p, session.start),
                         !.log = Logged(@, Names(evs))]
    ELSE IF session.phase = "down" /\ session.id = id /\ kind = "up"
    THEN [session EXCEPT !.phase = "up", !.log = Logged(@, Names(evs))]
    ELSE NoSession

Pairs(S) == {pr \in SUBSET S : Cardinality(pr) = 2}

\* where the two pointers of pr are in ps, and their squared distance
PairDistSq(ps, pr) ==
    LET i == CHOOSE k \in pr : TRUE
        j == CHOOSE k \in pr : k # i
    IN [d |-> distSq(XY(MapGet(ps, i)), XY(MapGet(ps, j))),
        at |-> [k \in pr |-> XY(MapGet(ps, k))]]

Gestural == {"dragstart", "drag", "transformstart", "transform"}

\* whether a bracket is open after the events names, given it was before
RECURSIVE OpenAfter(_, _, _, _)
OpenAfter(o, names, start, end) ==
    IF names = <<>> THEN o
    ELSE OpenAfter(IF Head(names) = start THEN TRUE
                   ELSE IF Head(names) = end THEN FALSE
                   ELSE o,
                   Tail(names), start, end)

History(kind, id, p, accepted) ==
    LET names == {emitted'[i].name : i \in 1 .. Len(emitted')}
        fresh == IF kind = "down" /\ accepted /\ foamtree THEN {id} ELSE {}
    IN /\ session' = SessionStep(kind, id, p, accepted, emitted')
       /\ started' = IF pointers' = <<>> THEN FALSE
                     ELSE started \/ "transformstart" \in names
       /\ involved' = ((involved \ fresh)
                        \cup (IF names \cap Gestural # {} THEN Keys(pointers')
                              ELSE {}))
                      \cap Keys(pointers')
       /\ crossed' =
            IF ~recording THEN crossed
            ELSE ((crossed \ fresh)
                   \cup (IF kind = "move" /\ foamtree /\ id \in DOMAIN startPos
                             /\ Far(p, startPos[id])
                         THEN {id} ELSE {}))
                 \cap Keys(pointers')
       /\ pairDist' =
            IF ~recording THEN pairDist
            ELSE [pr \in Pairs(Keys(pointers')) |->
                    IF fresh \cap pr # {} \/ pr \notin DOMAIN pairDist
                    THEN PairDistSq(pointers', pr)
                    ELSE pairDist[pr]]
       /\ open' =
            IF ~recording THEN open
            ELSE [transform |-> OpenAfter(open.transform, Names(emitted'),
                                          "transformstart", "transformend"),
                  drag |-> OpenAfter(open.drag, Names(emitted'),
                                     "dragstart", "dragend")]
       /\ UNCHANGED recording

\* An input as the handlers read it: the position is rel(ev), which
\* onPointerDown and onPointerMove compute only for an event they act on.
Input(kind, id, p, arg) == [kind |-> kind, id |-> id, p |-> p, arg |-> arg]

\* ------------------------------------------------------------- clustering
\* the similarities there are, 0.0 to 1.0, in tenths
Similarities == 0 .. 10

\* props.vectors, each vector known by its index
Vectors == {0, 1, 2, 3}

\* buildSimilarityGraph(props.vectors), a function of the library
\* @andorsearch/qry-codes: here edgeScores, an array that holds for each
\* vector the array of its scores with the vectors behind it, in tenths.
\* Vectors 1 and 2 are the closest, then 0 and 1, then 2 and 3.
buildSimilarityGraph(vs) ==
    [i \in 1 .. Cardinality(vs) |->
        [d \in 1 .. (Cardinality(vs) - i) |->
            IF <<i - 1, i - 1 + d>> = <<1, 2>> THEN 9
            ELSE IF <<i - 1, i - 1 + d>> = <<0, 1>> THEN 8
            ELSE IF <<i - 1, i - 1 + d>> = <<2, 3>> THEN 7
            ELSE 5]]

\* the score of the vectors i and j in the graph g
Score(g, i, j) ==
    IF i < j THEN g[i + 1][j - i] ELSE g[j + 1][i - j]

\* the vectors of the graph g
Nodes(g) == 0 .. (Len(g) - 1)

SetMin(S) == CHOOSE m \in S : \A k \in S : m <= k

SetMax(S) == CHOOSE m \in S : \A k \in S : m >= k

\* the members of S as a number[], ascending
RECURSIVE Ascending(_)
Ascending(S) ==
    IF S = {} THEN <<>>
    ELSE <<SetMin(S)>> \o Ascending(S \ {SetMin(S)})

\* S with the vectors a score >= t links to it
Grow(S, g, t) ==
    S \cup {j \in Nodes(g) : \E i \in S : i # j /\ Score(g, i, j) >= t}

RECURSIVE Component(_, _, _)
Component(S, g, t) ==
    IF Grow(S, g, t) = S THEN S ELSE Component(Grow(S, g, t), g, t)

RECURSIVE GroupsOf(_, _, _)
GroupsOf(rest, g, t) ==
    IF rest = {} THEN <<>>
    ELSE LET c == Component({SetMin(rest)}, g, t)
         IN <<Ascending(c)>> \o GroupsOf(rest \ c, g, t)

\* clusterByThreshold(simGraph, threshold), a function of the same library:
\* here the groups that scores >= threshold connect, each a number[] of
\* vector indices, in the order of their first members.
clusterByThreshold(g, t) == GroupsOf(Nodes(g), g, t)

\* a clusterResults that builds the graph in every run
NeedsGraphAlways(g) == TRUE

\* whether clusterResults builds the graph: if (!simGraph)
NeedsGraph(g) == g = <<>>

\* let max = 0, min = 1 and the forEach over edgeScores; minFoundSim is
\* Math.max(props.minSliderSim(), min)
FoundSims(g) ==
    LET scores == UNION {{g[i][d] : d \in 1 .. Len(g[i])} : i \in 1 .. Len(g)}
    IN [min |-> SetMax({MinSliderSim, SetMin(scores \cup {10})}),
        max |-> SetMax(scores \cup {0})]

\* a filter that also drops the groups of exactly n members
KeptStrict(groups, n) == SelectSeq(groups, LAMBDA c : Len(c) > n)

\* clusteredIDs.filter(c => c.length >= props.minDocsPerCluster)
Kept(groups, n) == SelectSeq(groups, LAMBDA c : Len(c) >= n)

\* the forEach that makes a Cluster of each group kept; mergedVector is
\* left out, nothing reads it
Numbered(groups) ==
    [i \in 1 .. Len(groups) |->
        [clusterIndex |-> i - 1, indices |-> groups[i], score |-> Len(groups[i])]]

\* c put into s, which is sorted, behind all of s that do not score less
Inserted(c, s) ==
    LET k == Cardinality({i \in 1 .. Len(s) : s[i].score >= c.score})
    IN SubSeq(s, 1, k) \o <<c>> \o SubSeq(s, k + 1, Len(s))

\* unsortedClusters.sort((a, b) => b.score - a.score), a stable sort
RECURSIVE SortedByScore(_)
SortedByScore(cs) ==
    IF cs = <<>> THEN <<>>
    ELSE Inserted(cs[Len(cs)], SortedByScore(SubSeq(cs, 1, Len(cs) - 1)))

\* what clusterResults leaves in clusters.value for the threshold t
ClustersAt(g, t, n) == SortedByScore(Numbered(Kept(clusterByThreshold(g, t), n)))

\* an event of the component
CEv(name, args) == [name |-> name, args |-> args]

BuiltAgain(b) == IF b = 0 THEN 1 ELSE 2

\* clusterResults() with sliderSim.value = t
clusterResults(t) ==
    LET build == NeedsGraph(simGraph)
        g == IF build THEN buildSimilarityGraph(Vectors) ELSE simGraph
    IN /\ simGraph' = g
       /\ found' = IF build THEN FoundSims(g) ELSE found
       /\ events' = IF build THEN <<CEv("similarityGraphBuilt", <<g>>)>>
                    ELSE <<>>
       /\ built' = IF build THEN BuiltAgain(built) ELSE built
       /\ clusters' = ClustersAt(g, t, props.minDocsPerCluster)

\* the default of props.clusterLabeller: "Cluster " + cluster.clusterIndex
clusterLabeller(cluster) == <<"Cluster", cluster.clusterIndex>>

\* the groups of buildFoamData(); id is i of `cluster-${i}`, weight is in
\* tenths, groups holds the vectorIndex of each item, docID is -1 where the
\* code leaves it undefined
buildFoamData(cl) ==
    [k \in 1 .. Len(cl) |->
        [id |-> k - 1,
         label |-> clusterLabeller(cl[k]),
         weight |-> IF Len(cl[k].indices) = 1 THEN 1
                    ELSE 10 * Len(cl[k].indices),
         clusterIndex |-> k - 1,
         groups |-> IF Len(cl[k].indices) > 1 THEN cl[k].indices ELSE <<>>,
         docID |-> IF Len(cl[k].indices) > 1 THEN -1 ELSE cl[k].indices[1]]]

\* the arguments of clusterClicked for the group the handler holds
ClickedArgs(group) ==
    <<group.clusterIndex, group.label,
      IF Len(group.groups) > 1 THEN group.groups ELSE <<group.docID>>>>

\* s without its k-th element
Without(s, k) == SubSeq(s, 1, k - 1) \o SubSeq(s, k + 1, Len(s))

\* ------------------------------------------------------------ the lifecycle
Created ==
    /\ foamtree = FALSE
    /\ listening = {}
    /\ container = FALSE
    /\ resizeObserver = FALSE
    /\ rendering = FALSE
    /\ console = <<>>
    /\ uncaught = FALSE
    /\ sliderSim = props.minClusterSim
    /\ simGraph = <<>>
    /\ found = [min |-> 0, max |-> 10]
    /\ clusters = <<>>
    /\ dataObject = <<>>
    /\ updating = FALSE
    /\ exposed = <<>>
    /\ exposing = <<>>
    /\ events = <<>>
    /\ built = 0
    /\ pointers = <<>>
    /\ startPos = <<>>
    /\ baseDist = 0
    /\ dragging = FALSE
    /\ transforming = FALSE
    /\ hostDown = {}
    /\ emitted = <<>>
    /\ last = Input("init", 0, Origin, 0)
    /\ session = NoSession
    /\ started = FALSE
    /\ involved = {}
    /\ crossed = {}
    /\ pairDist = <<>>
    /\ open = [transform |-> FALSE, drag |-> FALSE]

\* the props left at their defaults
DefaultProps ==
    [minClusterSim |-> DefaultMinClusterSim,
     minDocsPerCluster |-> DefaultMinDocsPerCluster]

Init ==
    /\ recording = FALSE
    /\ props = DefaultProps
    /\ Created

\* The component is mounted: the template ref is bound and the onMounted
\* hook runs, which leaves its nextTick callback to be run.
OnMounted ==
    /\ last.kind = "init"
    /\ container' = TRUE
    /\ rendering' = TRUE
    /\ clusterResults(sliderSim)
    /\ last' = Input("mounted", 0, Origin, 0)
    /\ emitted' = <<>>
    /\ UNCHANGED <<foamtree, listening, resizeObserver, console, uncaught,
                   props, sliderSim, dataObject, updating, exposed, exposing,
                   translator, hostDown, history, recording>>

\* a dispose() whose exception nobody catches
DisposalUncaught(instance, throws) ==
    IF instance /\ throws THEN "thrown" ELSE "done"

\* try { if (foamtree.value) foamtree.value.dispose(); } catch (e) { log }:
\* "caught" when dispose() threw and the catch clause logged it
Disposal(instance, throws) ==
    IF instance /\ throws THEN "caught" ELSE "done"

ConsoleAfter(log, outcome, message) ==
    IF outcome = "caught" THEN Append(log, message) ELSE log

\* the event types addEventListener is called for in the nextTick callback
AddedListeners ==
    {"pointerdown", "pointermove", "pointerup", "pointercancel", "wheel"}

\* the event types removeEventListener is called for in onBeforeUnmount
RemovedListeners ==
    {"pointerdown", "pointermove", "pointerup", "pointercancel", "wheel"}

\* onMounted's nextTick callback: renderFoamTree(), then the listeners and
\* the resize observer. throws: whether dispose() of an instance throws.
Mount(throws) ==
    /\ rendering
    /\ rendering' = FALSE
    /\ last' = Input("mount", 0, Origin, 0)
    /\ emitted' = <<>>
    /\ events' = <<>>
    /\ IF container
       THEN /\ foamtree' = TRUE
            /\ console' = ConsoleAfter(console, Disposal(foamtree, throws),
                                  "FoamTree dispose failed")
            /\ dataObject' = buildFoamData(clusters)
            /\ exposed' = <<>>
            /\ listening' = listening \cup AddedListeners
            /\ resizeObserver' = TRUE
       ELSE UNCHANGED <<foamtree, console, dataObject, exposed, listening,
                        resizeObserver>>
    /\ UNCHANGED <<container, uncaught, props, sliderSim, simGraph, found,
                   clusters, updating, exposing, built, translator, hostDown,
                   history, recording>>

\* The component is unmounted: the onBeforeUnmount hook runs and the
\* template ref is unbound. throws: whether dispose() throws.
Unmount(throws) ==
    LET outcome == Disposal(foamtree, throws)
    IN /\ container
       /\ listening' = listening \ RemovedListeners
       /\ resizeObserver' = FALSE
       /\ console' = ConsoleAfter(console, outcome, "Failed disposal")
       /\ uncaught' = (outcome = "thrown")
       /\ foamtree' = IF outcome = "thrown" THEN foamtree ELSE FALSE
       /\ container' = FALSE
       /\ last' = Input("unmount", 0, Origin, IF foamtree /\ throws THEN 1 ELSE 0)
       /\ emitted' = <<>>
       /\ session' = NoSession
       /\ UNCHANGED <<rendering, clustering, translator, hostDown, started,
                      involved, crossed, pairDist, open, recording>>

\* ------------------------------------------------- the host delivers inputs
PointerDown(id, p, button) ==
    /\ "pointerdown" \in listening
    /\ id \notin hostDown
    /\ hostDown' = hostDown \cup {id}
    /\ onPointerDown(id, p, button)
    /\ last' = Input("down", id, IF AcceptsDown(id, button) THEN p ELSE Origin, button)
    /\ History("down", id, p, AcceptsDown(id, button))
    /\ UNCHANGED <<foamtree, listening, lifecycle, clustering>>

\* a mouse also moves (hovers) with no button down
PointerMove(id, p) ==
    /\ "pointermove" \in listening
    /\ id \in hostDown \/ PointerType(id) = "mouse"
    /\ onPointerMove(id, p)
    /\ last' = Input("move", id, IF MapHas(pointers, id) THEN p ELSE Origin, 0)
    /\ History("move", id, p, TRUE)
    /\ UNCHANGED <<foamtree, listening, lifecycle, clustering, hostDown>>

PointerUp(id, p) ==
    /\ "pointerup" \in listening
    /\ id \in hostDown
    /\ hostDown' = hostDown \ {id}
    /\ onPointerUp(id, p)
    /\ last' = Input("up", id, p, 0)
    /\ History("up", id, p, TRUE)
    /\ UNCHANGED <<foamtree, listening, lifecycle, clustering>>

\* a cancel that forgets the pointer and ends its gestures without a word
onPointerCancelSilent(id, p) ==
    LET ps == MapDelete(pointers, id)
    IN /\ emitted' = <<>>
       /\ pointers' = ps
       /\ startPos' = [k \in DOMAIN startPos \ {id} |-> startPos[k]]
       /\ dragging' = FlagAfterUp(ps, dragging)
       /\ transforming' = FlagAfterUp(ps, transforming)
       /\ UNCHANGED baseDist

\* the listener of pointercancel: addEventListener("pointercancel", onPointerUp)
onPointerCancel(id, p) == onPointerUp(id, p)

PointerCancel(id, p) ==
    /\ "pointercancel" \in listening
    /\ id \in hostDown
    /\ hostDown' = hostDown \ {id}
    /\ onPointerCancel(id, p)
    /\ last' = Input("cancel", id, p, 0)
    /\ History("cancel", id, p, TRUE)
    /\ UNCHANGED <<foamtree, listening, lifecycle, clustering>>

\* The mouse button is released outside the container: no pointer capture is
\* set, so no listener of the container hears of it.
ReleasedOutside(id) ==
    /\ container
    /\ id \in hostDown
    /\ PointerType(id) = "mouse"
    /\ hostDown' = hostDown \ {id}
    /\ last' = Input("outside", id, Origin, 0)
    /\ emitted' = <<>>
    /\ session' = NoSession
    /\ UNCHANGED <<foamtree, listening, lifecycle, clustering, translator, started, involved, crossed, pairDist, open, recording>>

Wheel(p, deltaY) ==
    /\ "wheel" \in listening
    /\ onWheel(p, deltaY)
    /\ last' = Input("wheel", 0, p, deltaY)
    /\ session' = IF session.phase = "down" THEN session ELSE NoSession
    /\ UNCHANGED <<foamtree, listening, lifecycle, clustering, hostDown, started, involved, crossed, pairDist, open, recording>>

\* ------------------------------------------- the slider and the selection
\* The user moves the slider to v and the watcher of sliderSim runs. The
\* slider is of the mounted component and offers minFoundSim .. maxFoundSim.
SliderChange(v) ==
    /\ container
    /\ ~rendering
    /\ ~updating
    /\ v \in found.min .. found.max
    /\ v # sliderSim
    /\ sliderSim' = v
    /\ IF v # props.minClusterSim
       THEN /\ clusterResults(v)
            /\ updating' = TRUE
       ELSE /\ events' = <<>>
            /\ UNCHANGED <<simGraph, found, clusters, built, updating>>
    /\ last' = Input("slider", 0, Origin, v)
    /\ emitted' = <<>>
    /\ UNCHANGED <<foamtree, listening, lifecycle, props, dataObject, exposed,
                   exposing, translator, hostDown, history, recording>>

\* The nextTick callback of the watcher:
\* foamtree.value?.set("dataObject", buildFoamData()). The instance starts
\* over with the new groups, none exposed; whether it still resolves the
\* expose() promises of the old ones is the library's (keeps).
Update(keeps) ==
    /\ updating
    /\ updating' = FALSE
    /\ IF foamtree
       THEN /\ dataObject' = buildFoamData(clusters)
            /\ exposed' = <<>>
            /\ exposing' = IF keeps THEN exposing ELSE <<>>
       ELSE UNCHANGED <<dataObject, exposed, exposing>>
    /\ last' = Input("update", 0, Origin, 0)
    /\ emitted' = <<>>
    /\ events' = <<>>
    /\ UNCHANGED <<foamtree, listening, lifecycle, props, sliderSim, simGraph,
                   found, clusters, built, translator, hostDown, history,
                   recording>>

\* info.groups of a groupSelectionChanged: no group (k = 0) or the k-th
\* group of the dataObject
Selection(k) == IF k = 0 THEN <<>> ELSE <<dataObject[k]>>

\* a handler that exposes the selected group also when it is the exposed one
IsExposedNever(group, exposure) == FALSE

\* the group is the first of the groups ft.get("exposure") reports
IsExposed(group, exposure) == exposure # <<>> /\ group.id = exposure[1]

\* The instance reports groupSelectionChanged with info.groups =
\* Selection(k) and the handler runs; expose() of a group exposes it and
\* leaves a promise.
Select(k) ==
    LET sel == Selection(k)
    IN
    /\ foamtree
    /\ ~updating
    /\ k \in 0 .. Len(dataObject)
    /\ IF sel = <<>>
       THEN /\ exposed' = <<>>
            /\ UNCHANGED exposing
       ELSE IF IsExposed(sel[1], exposed)
       THEN /\ exposed' = <<>>
            /\ UNCHANGED exposing
       ELSE /\ Len(exposing) < MaxExposing
            /\ exposed' = <<sel[1].id>>
            /\ exposing' = Append(exposing, sel[1])
    /\ last' = Input("select", 0, Origin, IF sel = <<>> THEN -1 ELSE sel[1].id)
    /\ emitted' = <<>>
    /\ events' = <<>>
    /\ UNCHANGED <<foamtree, listening, lifecycle, props, sliderSim, simGraph,
                   found, clusters, dataObject, updating, built, translator,
                   hostDown, history, recording>>

\* The k-th unresolved expose() promise resolves and its then-callback
\* emits clusterClicked for the group it holds.
ExposeDone(k) ==
    /\ ~updating
    /\ k \in 1 .. Len(exposing)
    /\ events' = <<CEv("clusterClicked", ClickedArgs(exposing[k]))>>
    /\ exposing' = Without(exposing, k)
    /\ last' = Input("exposed", 0, Origin, 0)
    /\ emitted' = <<>>
    /\ UNCHANGED <<foamtree, listening, lifecycle, props, sliderSim, simGraph,
                   found, clusters, dataObject, updating, exposed, built,
                   translator, hostDown, history, recording>>

Next ==
    \/ OnMounted
    \/ \E throws \in BOOLEAN : Mount(throws)
    \/ \E id \in Ids, p \in Positions : \E b \in Buttons(id) :
          PointerDown(id, p, b)
    \/ \E id \in Ids, p \in Positions : PointerMove(id, p)
    \/ \E id \in Ids, p \in Positions : PointerUp(id, p)
    \/ \E id \in Ids, p \in Positions : PointerCancel(id, p)

Spec == Init /\ [][Next]_vars

\* the pointer inputs with the histories crossed and pairDist kept
InitRecorded ==
    /\ recording = TRUE
    /\ props = DefaultProps
    /\ Created

SpecRecorded == InitRecorded /\ [][Next]_vars

\* the pointer inputs together with releases the container does not hear of
NextHost ==
    \/ Next
    \/ \E id \in Ids : ReleasedOutside(id)

SpecHost == Init /\ [][NextHost]_vars

\* the pointer inputs together with the end of the component
NextLifecycle ==
    \/ Next
    \/ \E throws \in BOOLEAN : Unmount(throws)

SpecLifecycle == Init /\ [][NextLifecycle]_vars

\* the wheel together with pointers going down, moving and up
NextWheel ==
    \/ OnMounted
    \/ \E throws \in BOOLEAN : Mount(throws)
    \/ \E id \in Ids, p \in Positions : \E b \in Buttons(id) :
          PointerDown(id, p, b)
    \/ \E id \in Ids, p \in Positions : PointerMove(id, p)
    \/ \E id \in Ids, p \in Positions : PointerUp(id, p)
    \/ \E p \in WheelPositions, d \in WheelDeltas : Wheel(p, d)

SpecWheel == Init /\ [][NextWheel]_vars

\* the props a parent may pass
PropChoices ==
    [minClusterSim : {DefaultMinClusterSim, 9},
     minDocsPerCluster : {DefaultMinDocsPerCluster, 2}]

InitCluster ==
    /\ recording = FALSE
    /\ props \in PropChoices
    /\ Created

\* the slider and the selection of groups, with no pointer input
NextCluster ==
    \/ OnMounted
    \/ \E throws \in BOOLEAN : Mount(throws)
    \/ \E v \in Similarities : SliderChange(v)
    \/ \E keeps \in BOOLEAN : Update(keeps)
    \/ \E k \in 0 .. Cardinality(Vectors) : Select(k)
    \/ \E k \in 1 .. MaxExposing : ExposeDone(k)

SpecCluster == InitCluster /\ [][NextCluster]_vars

TypeOK ==
    /\ foamtree \in BOOLEAN
    /\ listening \subseteq AddedListeners
    /\ Keys(pointers) = DOMAIN startPos
    /\ Keys(pointers) \subseteq Ids
    /\ Len(pointers) = Cardinality(Keys(pointers))

\* ------------------------------------------------------------- properties
NamesIn(evs) == {evs[i].name : i \in 1 .. Len(evs)}

Count(log, name) == Cardinality({i \in 1 .. Len(log) : log[i] = name})

\* a scale <<num, den>> is the number 1.0
IsOne(sc) == sc[2] # 0 /\ sc[1] = sc[2]

\* a scale <<num, den>> is the quotient of the distances whose squares are
\* a and b
IsQuotient(sc, a, b) == b # 0 /\ sc[2] # 0 /\ sc[1] * b = a * sc[2]

\* C1: a contact of one tracked pointer that starts at idle and never moves
\* beyond the tolerance from where it went down emits nothing until it is
\* released and then exactly one click, at the position of the release, and
\* no dragstart, drag or dragend.
C1_TapEmitsOneClick ==
    (session.phase # "none" /\ ~session.exceeded) =>
        /\ session.phase = "down" => session.log = <<>>
        /\ session.phase = "up" =>
              /\ session.log = <<"click">>
              /\ emitted = <<Ev("click", last.p, NoScale, FALSE)>>

C1_Witness ==
    /\ session.phase = "up"
    /\ session.moved
    /\ ~session.exceeded
    /\ last.kind = "up"
    /\ NamesIn(emitted) = {"click"}

\* C2: a contact of one tracked pointer that starts at idle and moves beyond
\* the tolerance emits dragstart before any drag, no click, no dragend while
\* it is down and exactly one dragend, and nothing else, at its release.
C2_DragBracketsWithoutClick ==
    session.exceeded =>
        /\ \A i \in 1 .. Len(session.log) :
              session.log[i] = "drag" =>
                  \E j \in 1 .. (i - 1) : session.log[j] = "dragstart"
        /\ Count(session.log, "click") = 0
        /\ session.phase = "down" => Count(session.log, "dragend") = 0
        /\ session.phase = "up" =>
              /\ Count(session.log, "dragend") = 1
              /\ Names(emitted) = <<"dragend">>

C2_Witness ==
    /\ session.phase = "up"
    /\ session.exceeded
    /\ last.kind = "up"
    /\ session.log = <<"dragstart", "drag", "dragend">>

\* C3: when a pointer goes down and is tracked as the second one, whether the
\* first is dragging or not, that down emits transformstart; and a move emits
\* transform only after pointer handling has emitted transformstart since
\* the translator was last idle.
C3_SecondPointerStartsTransform ==
    /\ (/\ last.kind = "down"
        /\ last.arg = 0
        /\ Len(pointers) = 2
        /\ pointers[2].id = last.id)
           => Names(emitted) = <<"transformstart">>
    /\ (last.kind = "move" /\ "transform" \in NamesIn(emitted)) => started

C3_Witness ==
    /\ last.kind = "down"
    /\ Len(pointers) = 2
    /\ pointers[2].id = last.id
    /\ dragging
    /\ Names(emitted) = <<"transformstart">>

\* C4: a transform emitted by a move while two pointers are tracked carries
\* the scale (current distance of the two) / (their distance when the later
\* of the two went down), and the scale 1.0 when both are where they were
\* then.
C4_ScaleIsDistanceRatio ==
    (/\ last.kind = "move"
     /\ Len(pointers) = 2
     /\ Names(emitted) = <<"transform">>)
        => LET pr == {pointers[1].id, pointers[2].id}
               cur == distSq(XY(pointers[1]), XY(pointers[2]))
               sc == emitted[1].scale
           IN /\ pairDist[pr].d # 0 => IsQuotient(sc, cur, pairDist[pr].d)
              /\ (\A k \in pr : XY(MapGet(pointers, k)) = pairDist[pr].at[k])
                    => IsOne(sc)

\* C5: after a release that leaves no tracked pointers, both maps are empty
\* and dragging and transforming are false.
C5_LastReleaseReturnsToIdle ==
    (last.kind \in {"up", "cancel"} /\ pointers = <<>>) => Idle

C5_Witness ==
    /\ last.kind = "up"
    /\ pointers = <<>>
    /\ NamesIn(emitted) = {"transformend", "dragend"}
    /\ Idle

\* C6: transforming is true exactly when two or more pointers are tracked.
C6_TransformingIffTwoTracked == transforming <=> Len(pointers) >= 2

\* C7: dragging is true only if exactly one pointer is tracked and that
\* pointer has moved beyond the tolerance from where it went down.
C7_DraggingOnlySolePointerBeyond ==
    dragging => Len(pointers) = 1 /\ pointers[1].id \in crossed

\* C8: a release emits transformend if a transform was active and dragend if
\* a drag was active, and it emits click, once and at the position of the
\* release, exactly when the released pointer took part in no drag and no
\* transform.
C8_ReleaseStep ==
    last'.kind = "up" =>
        /\ transforming => "transformend" \in NamesIn(emitted')
        /\ dragging => "dragend" \in NamesIn(emitted')
        /\ Count(Names(emitted'), "click")
              = (IF last'.id \in involved THEN 0 ELSE 1)
        /\ \A i \in 1 .. Len(emitted') :
              emitted'[i].name = "click" =>
                  emitted'[i] = Ev("click", last'.p, NoScale, FALSE)

C8_ReleaseEmits == [][C8_ReleaseStep]_vars

\* C9: a press, a move and a release of a mouse whose press was not with the
\* primary button track no pointer, change nothing of the gesture state and
\* emit nothing.
C9_NonPrimaryStep ==
    (\/ last'.kind = "down" /\ last'.arg # 0
     \/ /\ last'.kind \in {"move", "up"}
        /\ last'.id \in hostDown \ Keys(pointers))
        => /\ emitted' = <<>>
           /\ UNCHANGED translator

C9_NonPrimaryIgnored == [][C9_NonPrimaryStep]_vars

\* C10: a wheel event emits transformstart, transform, transformend, once
\* each and in this order, all at the cursor; the scale of the transform is
\* 1.03 for a negative delta and 0.97 for a positive one, whatever came
\* before.
C10_WheelEmitsBracket ==
    last.kind = "wheel" =>
        /\ Names(emitted) = <<"transformstart", "transform", "transformend">>
        /\ \A i \in 1 .. Len(emitted) :
              emitted[i].x = last.p.x /\ emitted[i].y = last.p.y
        /\ last.arg < 0 =>
              /\ IsQuotient(emitted[2].scale, 103 * 103, 100 * 100)
              /\ emitted[2].scale[1] > emitted[2].scale[2]
        /\ last.arg > 0 =>
              /\ IsQuotient(emitted[2].scale, 97 * 97, 100 * 100)
              /\ emitted[2].scale[1] < emitted[2].scale[2]

C10_Witness ==
    /\ last.kind = "wheel"
    /\ last.arg < 0
    /\ transforming
    /\ Len(emitted) = 3
    /\ IsQuotient(emitted[2].scale, 103 * 103, 100 * 100)

\* C11: a wheel event, whatever the pointers are doing (none tracked, one
\* tracked, dragging, transforming), leaves the pointers map, the startPos
\* map, baseDist, dragging and transforming as they were, and the rendering
\* instance too: all that the pointer handlers read to decide what later
\* pointer events emit.
C11_WheelStep ==
    last'.kind = "wheel" =>
        /\ UNCHANGED <<pointers, startPos, baseDist, dragging, transforming>>
        /\ UNCHANGED foamtree

C11_WheelLeavesPointerState == [][C11_WheelStep]_vars

C11_Witness ==
    /\ last.kind = "wheel"
    /\ Len(pointers) = 2
    /\ transforming
    /\ dragging
    /\ baseDist # 0
    /\ Len(emitted) = 3

\* C16: a pointercancel of a pointer does what a pointerup of that pointer at
\* the same position does from the same state: the same events are emitted
\* and the same gesture state results.
C16_CancelStep ==
    last'.kind = "cancel" => onPointerUp(last'.id, last'.p)

C16_CancelIsUp == [][C16_CancelStep]_vars

C16_Witness ==
    /\ last.kind = "cancel"
    /\ Len(pointers) = 1
    /\ Names(emitted) = <<"transformend", "dragend">>
    /\ emitted[1].x = last.p.x

RECURSIVE Bracketed(_, _, _, _, _)
Bracketed(o, names, start, mid, end) ==
    IF names = <<>> THEN TRUE
    ELSE LET h == Head(names)
         IN /\ h = start => ~o
            /\ h \in {mid, end} => o
            /\ Bracketed(OpenAfter(o, <<h>>, start, end), Tail(names),
                         start, mid, end)

PointerKinds == {"down", "move", "up", "cancel"}

\* C18: over any sequence of pointer down, move, up and cancel events the
\* transform events of the pointer handlers are well bracketed: no
\* transformstart while a transformstart is unmatched, no transformend
\* without an unmatched transformstart, and every transform inside a
\* transformstart ... transformend bracket.
C18_TransformStep ==
    last'.kind \in PointerKinds =>
        Bracketed(open.transform, Names(emitted'),
                  "transformstart", "transform", "transformend")

C18_TransformBracketed == [][C18_TransformStep]_vars

\* C19: over any sequence of pointer events, a second pointer going down
\* during a drag included, the drag events are well bracketed: no dragend
\* without an unmatched dragstart, no dragstart while one is unmatched, no
\* drag outside a dragstart ... dragend bracket.
C19_DragStep ==
    last'.kind \in PointerKinds =>
        Bracketed(open.drag, Names(emitted'), "dragstart", "drag", "dragend")

C19_DragBracketed == [][C19_DragStep]_vars

\* C12: once the component is unmounted, none of the five input listeners is
\* left on the container, the resize observer is disconnected and dropped
\* and the rendering-instance reference is null, also when dispose() threw;
\* then the failure was logged, and no exception left the unmount hook.
\* The nextTick callback of onMounted running after the unmount changes
\* nothing of this.
C12_TeardownCompletes ==
    (~container /\ last.kind # "init") =>
        /\ listening = {}
        /\ ~resizeObserver
        /\ ~foamtree
        /\ ~uncaught
        /\ ~rendering => last.kind \in {"unmount", "mount"}
        /\ (last.kind = "unmount" /\ last.arg = 1) =>
              console = <<"Failed disposal">>
        /\ (last.kind = "unmount" /\ last.arg = 0) => console = <<>>

C12_Witness ==
    /\ ~container
    /\ last.kind = "unmount"
    /\ last.arg = 1
    /\ console = <<"Failed disposal">>
    /\ Len(pointers) = 2
    /\ listening = {}
    /\ ~foamtree

\* C13: whenever clusterClicked is emitted, its arguments are an index into
\* the cluster list of the component as it is then, the label of the
\* cluster standing at that index, and the vector indices of exactly the
\* members of that cluster (one index for a cluster of one vector), however
\* selections, completions of expose() and slider changes are ordered.
C13_ClickedIsClusterAtIndex ==
    \A e \in 1 .. Len(events) :
        events[e].name = "clusterClicked" =>
            LET i == events[e].args[1]
            IN /\ i + 1 \in DOMAIN clusters
               /\ events[e].args[2] = clusterLabeller(clusters[i + 1])
               /\ events[e].args[3] = clusters[i + 1].indices

\* C14: similarityGraphBuilt is emitted once in the life of a component, by
\* the clustering run of onMounted, with the graph built then; no later
\* clustering run, whatever the slider does, emits it or builds a graph
\* again.
C14_GraphBuiltOnce ==
    /\ built = (IF last.kind = "init" THEN 0 ELSE 1)
    /\ (simGraph # <<>>) <=> (built = 1)
    /\ built = 1 =>
          /\ simGraph = buildSimilarityGraph(Vectors)
          /\ found = FoundSims(simGraph)
    /\ last.kind = "mounted" =>
          events = <<CEv("similarityGraphBuilt", <<simGraph>>)>>
    /\ last.kind # "mounted" =>
          \A e \in 1 .. Len(events) : events[e].name # "similarityGraphBuilt"

C14_Witness ==
    /\ last.kind = "slider"
    /\ last.arg = 9
    /\ props.minClusterSim = 7
    /\ Len(clusters) = 3
    /\ built = 1
    /\ events = <<>>

\* a step in which clusterResults ran: the mount, or a slider change whose
\* watcher went on to cluster
ClusteringRan ==
    \/ last'.kind = "mounted"
    \/ last'.kind = "slider" /\ updating'

\* C15: after every clustering run every cluster of the list has at least
\* minDocsPerCluster members, and every group that threshold grouping
\* returns for the slider value with at least minDocsPerCluster members is
\* in the list exactly once.
C15_RunStep ==
    /\ \A k \in 1 .. Len(clusters') :
          Len(clusters'[k].indices) >= props.minDocsPerCluster
    /\ ClusteringRan =>
          LET groups == clusterByThreshold(simGraph', sliderSim')
          IN \A i \in 1 .. Len(groups) :
                Len(groups[i]) >= props.minDocsPerCluster =>
                    Cardinality({k \in 1 .. Len(clusters') :
                                   clusters'[k].indices = groups[i]}) = 1

C15_ClustersAreTheLargeGroups == [][C15_RunStep]_vars

C15_Witness ==
    /\ last.kind = "slider"
    /\ updating
    /\ sliderSim = 9
    /\ props.minDocsPerCluster = 2
    /\ Len(clusterByThreshold(simGraph, sliderSim)) = 3
    /\ Len(clusters) = 1
    /\ clusters[1].indices = <<1, 2>>

\* C20: once the instance is rendered and no update is pending, the cluster
\* list is what threshold grouping gives for the value the slider has, and
\* the dataObject the instance has is built from that list; also when the
\* slider was moved away from props.minClusterSim and back to it.
C20_ShownIsGroupingAtSlider ==
    (foamtree /\ ~rendering /\ ~updating) =>
        /\ clusters = ClustersAt(simGraph, sliderSim, props.minDocsPerCluster)
        /\ dataObject = buildFoamData(clusters)

\* C21: a selection change with no group clears the exposure and one with
\* the group that is exposed clears it too (toggle off); neither starts an
\* expose() nor emits clusterClicked. A selection change with another
\* group exposes that group and emits nothing yet: clusterClicked is
\* emitted only by the completion of an expose(), once, for the group
\* that expose() was called for.
C21_SelectionStep ==
    /\ last'.kind = "select" =>
          /\ events' = <<>>
          /\ IF last'.arg = -1 \/ (exposed # <<>> /\ exposed[1] = last'.arg)
             THEN exposed' = <<>> /\ exposing' = exposing
             ELSE /\ exposed' = <<last'.arg>>
                  /\ exposing' = Append(exposing, dataObject[last'.arg + 1])
    /\ (\E e \in 1 .. Len(events') : events'[e].name = "clusterClicked") =>
          /\ last'.kind = "exposed"
          /\ Len(events') = 1
          /\ \E k \in 1 .. Len(exposing) :
                /\ exposing' = Without(exposing, k)
                /\ events'[1].args = ClickedArgs(exposing[k])

C21_SelectionTogglesExposure == [][C21_SelectionStep]_vars

C21_Witness ==
    /\ last.kind = "select"
    /\ last.arg >= 0
    /\ exposed = <<>>
    /\ Len(exposing) = 1
    /\ exposing[1].id = last.arg
    /\ events = <<>>

\* C22: the clusterIndex of the Cluster that clusterLabeller was given for a
\* cluster (the default label shows it) is the clusterIndex that
\* clusterClicked carries for that cluster, its place in the sorted list.
C22_LabelledIndexIsClickedIndex ==
    \A e \in 1 .. Len(events) :
        events[e].name = "clusterClicked" =>
            events[e].args[2] = <<"Cluster", events[e].args[1]>>

\* C23: the pointers the translator tracks are among the pointers the host
\* surface reports as down: those that went down on the container and
\* were neither released nor cancelled since.
C23_TrackedAreDown == Keys(pointers) \subseteq hostDown

=============================================================================
